---------------------------- MODULE Spec2Model ----------------------------
(***************************************************************************)
(* A model of .github/generate.py of the Themes repository: the paginator  *)
(* (write_pages, format_page_filename), the pagination navigator           *)
(* (generate_pagination, generate_page_links), the recency tracker         *)
(* (recents_maybe_append, generate_recents_grid) and the run of main().    *)
(*                                                                         *)
(* Text is modelled at two levels.  File names are TLA+ strings, built by  *)
(* concatenation as the f-strings of the source build them.  A rendered    *)
(* link strip is a sequence of tokens: one token per page entry (the bold  *)
(* current-page form or the link form, each with its label and target),    *)
(* and one token per separator (" ", NB_SPACE, LB_SPACER, "&hellip;").     *)
(***************************************************************************)
EXTENDS Integers, Sequences, FiniteSets, TLC

VARIABLES
    \* ---- generate_page_links called on its own
    num_pages,        \* argument num_pages
    current_page,     \* argument current_page
    strip,            \* the returned link strip (token sequence)
    navpc,            \* "call" before the call, "done" after it
    \* ---- write_pages over one category, run after run
    lines,            \* the category's ordering list, filtered to released
    page_size,        \* argument page_size
    page,             \* the loop variable of write_pages
    files,            \* the category's directory: file name -> document
    prev,             \* the directory as the previous run left it
    run,              \* "earlier" in the first run modelled, "later" in the next
    ppc,              \* "loop" inside write_pages, "done" after it
    \* ---- one recency collection
    recents,          \* the list recents_maybe_append appends to
    offered,          \* timestamps offered so far
    grid,             \* themes rendered by generate_recents_grid
    rpc,              \* "collect" while items are rendered, "read" after
    \* ---- a run of main()
    pc,               \* position in main()
    release_exists,   \* os.path.exists(RELEASE_DIR)
    custom_lines,     \* get_lines(CUSTOM_ORDERING)
    remixed_lines,    \* get_lines(REMIXED_ORDERING)
    themes_custom,    \* main: themes_custom
    themes_remixed,   \* main: themes_remixed
    mpage,            \* the loop variable of the write_pages in progress
    pages,            \* documents under PAGES_DIR: set of <<group, name>>
    pages_exists,     \* os.path.exists(PAGES_DIR)
    readme,           \* "old" until README_PATH is written, then "new"
    themes_icon_packs,\* global themes_icon_packs
    recently_added,   \* global recently_added
    recently_updated, \* global recently_updated
    offers            \* theme -> number of calls of recents_maybe_append

navvars  == <<num_pages, current_page, strip, navpc>>
pagevars == <<lines, page_size, page, files, prev, run, ppc>>
recvars  == <<recents, offered, grid, rpc>>
mainvars == <<pc, release_exists, custom_lines, remixed_lines, themes_custom,
              themes_remixed, mpage, pages, pages_exists, readme,
              themes_icon_packs, recently_added, recently_updated, offers>>
vars == <<navvars, pagevars, recvars, mainvars>>

----------------------------------------------------------------------------
(* Bounds of the model *)

MaxPages == 21
MaxTotal == 13
MaxGrow == 13
MaxPageSize == 3
MaxTs == 5
MaxLines == 2

(* Constants of generate.py *)

PageSize == 12
SmallLimit == 9
cutoff == 5
half_cut == cutoff \div 2

(* MAX_RECENTS comes from defs.py; the model gives it a small value. *)
MAX_RECENTS == 2

----------------------------------------------------------------------------
(* Python helpers *)

\* range(a, b)
Range(a, b) == IF b > a THEN [i \in 1..(b - a) |-> a + i - 1] ELSE <<>>

\* list(reversed(s))
Reverse(s) == [i \in 1..Len(s) |-> s[Len(s) - i + 1]]

\* the set of elements of a list
Elems(s) == {s[i] : i \in 1..Len(s)}

Ceil_Floor(total, size) == total \div size

\* math.ceil(total / page_size)
Ceil(total, size) == (total + size - 1) \div size

\* items[a : b] with 0-based bounds, cut at the end of the list as Python cuts
Slice(items, a, b) ==
    LET hi == IF b < Len(items) THEN b ELSE Len(items)
    IN  IF a >= hi THEN <<>> ELSE SubSeq(items, a + 1, hi)

\* one decimal digit as text
Digit(d) ==
    CASE d = 0 -> "0" [] d = 1 -> "1" [] d = 2 -> "2" [] d = 3 -> "3"
      [] d = 4 -> "4" [] d = 5 -> "5" [] d = 6 -> "6" [] d = 7 -> "7"
      [] d = 8 -> "8" [] d = 9 -> "9"

RECURSIVE Dec(_)
\* str(n) for n >= 0
Dec(n) == IF n < 10 THEN Digit(n) ELSE Dec(n \div 10) \o Digit(n % 10)

\* f"{n:02}" for n >= 0: zero-padded to a minimum width of 2
Pad2(n) == IF n < 10 THEN "0" \o Digit(n) ELSE Dec(n)

\* hashlib.shake_128(prefix.encode("utf-8")).hexdigest(2): the digests of
\* the prefixes the model reaches, as SHAKE-128 gives them
shake_128_hex2(prefix) ==
    CASE prefix = "01" -> "7974" [] prefix = "02" -> "6b19"
      [] prefix = "03" -> "1136" [] prefix = "04" -> "d89b"
      [] prefix = "05" -> "2ac4" [] prefix = "06" -> "2111"
      [] prefix = "07" -> "fc44" [] prefix = "08" -> "bce8"
      [] prefix = "09" -> "9d73" [] prefix = "10" -> "be8e"
      [] prefix = "11" -> "8c41" [] prefix = "12" -> "ca61"
      [] prefix = "13" -> "64b2" [] prefix = "14" -> "38e4"
      [] prefix = "15" -> "8ac5" [] prefix = "16" -> "ad9b"
      [] prefix = "17" -> "3477" [] prefix = "18" -> "38fa"
      [] prefix = "19" -> "962c" [] prefix = "20" -> "3105"
      [] prefix = "21" -> "20b0" [] prefix = "22" -> "e30d"
      [] prefix = "23" -> "6ef0" [] prefix = "24" -> "64bf"
      [] prefix = "25" -> "b2dd" [] prefix = "26" -> "9f6f"
      [] prefix = "27" -> "6d59" [] prefix = "28" -> "21b0"
      [] prefix = "29" -> "49fc" [] prefix = "30" -> "921d"
      [] prefix = "31" -> "ffd9" [] prefix = "32" -> "e400"
      [] prefix = "33" -> "ecfa" [] prefix = "34" -> "7018"
      [] prefix = "35" -> "3df9" [] prefix = "36" -> "dc97"
      [] prefix = "37" -> "064b" [] prefix = "38" -> "326b"
      [] prefix = "39" -> "074d" [] prefix = "40" -> "2eb3"

----------------------------------------------------------------------------
(* format_page_filename *)

format_page_filename_BadPrefix(pg, n) ==
    LET prefix == Pad2(pg)
        page_hash == shake_128_hex2(prefix)
    IN  IF pg = 0 THEN "index.md"
        ELSE "index-" \o prefix \o "-" \o SubSeq(page_hash, 1, 2) \o ".md"

format_page_filename(pg, n) ==
    LET prefix == Pad2(n - pg)
        page_hash == shake_128_hex2(prefix)
    IN  IF pg = 0 THEN "index.md"
        ELSE "index-" \o prefix \o "-" \o SubSeq(page_hash, 1, 2) \o ".md"

----------------------------------------------------------------------------
(* The tokens of a link strip *)

Sep(kind) == [k |-> kind, page |-> -1, label |-> 0, href |-> ""]
Space == Sep("space")         \* " "
NbSpace == Sep("nb_space")    \* NB_SPACE
LbSpacer == Sep("lb_spacer")  \* LB_SPACER
Ellipsis == Sep("ellipsis")   \* "&hellip;"

generate_page_link_SelfHref(pg, cur, n) ==
    IF pg = cur
    THEN [k |-> "bold", page |-> pg, label |-> pg + 1, href |-> ""]
    ELSE [k |-> "link", page |-> pg, label |-> pg + 1,
          href |-> format_page_filename(cur, n)]

\* f"{NB_SPACE}**{page + 1}**{NB_SPACE}" or
\* f"[{NB_SPACE}{page + 1}{NB_SPACE}]({format_page_filename(page, num_pages)})"
generate_page_link(pg, cur, n) ==
    IF pg = cur
    THEN [k |-> "bold", page |-> pg, label |-> pg + 1, href |-> ""]
    ELSE [k |-> "link", page |-> pg, label |-> pg + 1,
          href |-> format_page_filename(pg, n)]

RECURSIVE JoinSpace(_)
\* " ".join(parts) for a list of tokens
JoinSpace(parts) ==
    IF Len(parts) = 0 THEN <<>>
    ELSE IF Len(parts) = 1 THEN <<parts[1]>>
    ELSE <<parts[1], Space>> \o JoinSpace(Tail(parts))

generate_page_link_range(rng, cur, n) ==
    JoinSpace([i \in 1..Len(rng) |-> generate_page_link(rng[i], cur, n)])

is_low_Leq(cur) == cur <= cutoff

\* is_low = current_page < cutoff
is_low(cur) == cur < cutoff

is_high_Geq(cur, last_page) == cur >= last_page - cutoff

\* is_high = current_page > last_page - cutoff
is_high(cur, last_page) == cur > last_page - cutoff

generate_page_links(cur, n) ==
    IF n <= SmallLimit
    THEN generate_page_link_range(Range(0, n), cur, n)
    ELSE
      LET last_page == n - 1
          low == is_low(cur)
          high == is_high(cur, last_page)
      IN  <<generate_page_link(0, cur, n)>>
          \o (IF low
              THEN <<Space>> \o generate_page_link_range(Range(1, cutoff + 2), cur, n)
              ELSE <<NbSpace, Ellipsis>>)
          \o (IF low \/ high
              THEN <<Space>>
              ELSE <<LbSpacer>>
                   \o generate_page_link_range(
                        Range(cur - half_cut, cur + half_cut + 1), cur, n)
                   \o <<Space>>)
          \o (IF high
              THEN generate_page_link_range(
                     Range(last_page - cutoff - 1, last_page), cur, n)
                   \o <<Space>>
              ELSE <<Ellipsis, NbSpace>>)
          \o <<generate_page_link(last_page, cur, n)>>

generate_pagination_NextIsSelf(cur, n) ==
    [prev_href |-> IF cur > 0 THEN format_page_filename(cur - 1, n) ELSE "",
     links |-> generate_page_links(cur, n),
     next_href |-> IF cur < n - 1 THEN format_page_filename(cur, n) ELSE ""]

\* The "previous" and "next" arrows and the strip between them
generate_pagination(cur, n) ==
    [prev_href |-> IF cur > 0 THEN format_page_filename(cur - 1, n) ELSE "",
     links |-> generate_page_links(cur, n),
     next_href |-> IF cur < n - 1 THEN format_page_filename(cur + 1, n) ELSE ""]

----------------------------------------------------------------------------
(* The parts of the state a specification does not use stay as they are here *)

NavIdle ==
    /\ num_pages = 0 /\ current_page = 0 /\ strip = <<>> /\ navpc = "idle"

PageIdle ==
    /\ lines = <<>> /\ page_size = 0 /\ page = 0 /\ files = <<>>
    /\ prev = <<>> /\ run = "idle" /\ ppc = "idle"

RecIdle ==
    /\ recents = <<>> /\ offered = {} /\ grid = <<>> /\ rpc = "idle"

MainIdle ==
    /\ pc = "idle" /\ release_exists = FALSE
    /\ custom_lines = <<>> /\ remixed_lines = <<>>
    /\ themes_custom = <<>> /\ themes_remixed = <<>>
    /\ mpage = 0 /\ pages = {} /\ pages_exists = FALSE /\ readme = "old"
    /\ themes_icon_packs = <<>> /\ recently_added = <<>>
    /\ recently_updated = <<>> /\ offers = <<>>

----------------------------------------------------------------------------
(* generate_page_links, called with every page of every page count *)

NavInit ==
    /\ num_pages \in 1..MaxPages
    /\ current_page \in 0..(num_pages - 1)
    /\ strip = <<>>
    /\ navpc = "call"
    /\ PageIdle /\ RecIdle /\ MainIdle

RenderLinks ==
    /\ navpc = "call"
    /\ strip' = generate_page_links(current_page, num_pages)
    /\ navpc' = "done"
    /\ UNCHANGED <<num_pages, current_page, pagevars, recvars, mainvars>>

NavNext == RenderLinks

SpecNav == NavInit /\ [][NavNext]_vars

----------------------------------------------------------------------------
(* What a reader of a strip sees *)

IsEntry(t) == t.k \in {"bold", "link"}

\* the strip without its spacing: page entries and ellipses, in order
Shown(s) == SelectSeq(s, LAMBDA t : IsEntry(t) \/ t.k = "ellipsis")

\* the page entries of a strip, in order
Entries(s) == SelectSeq(s, IsEntry)

\* the entries a reader expects for the pages a..b, cur the bold one
Expect(a, b, cur, n) ==
    [i \in 1..(b - a + 1) |->
        LET pg == a + i - 1
        IN  IF pg = cur
            THEN [k |-> "bold", page |-> pg]
            ELSE [k |-> "link", page |-> pg]]

\* a strip's entries and ellipses, reduced to kind and page
Outline(s) ==
    [i \in 1..Len(Shown(s)) |->
        IF Shown(s)[i].k = "ellipsis" THEN [k |-> "ellipsis", page |-> -1]
        ELSE [k |-> Shown(s)[i].k, page |-> Shown(s)[i].page]]

Dots == <<[k |-> "ellipsis", page |-> -1]>>

\* C3: in the large mode (numPages >= 10) the strip is page 0, then the
\* leading range 1..6 iff currentPage < 5 (else a leading ellipsis), then the
\* window currentPage-2..currentPage+2 iff currentPage is in neither region,
\* then the trailing range lastPage-6..lastPage-1 iff currentPage >
\* lastPage-5 (else a trailing ellipsis), then the last page; currentPage is
\* the bold entry.
C3_LargeStrip ==
    (navpc = "done" /\ num_pages >= 10) =>
      LET last == num_pages - 1
          cur == current_page
          n == num_pages
          low == cur < 5
          high == cur > last - 5
      IN  /\ ~(low /\ high)
          /\ Outline(strip) =
               Expect(0, 0, cur, n)
               \o (IF low THEN Expect(1, 6, cur, n) ELSE Dots)
               \o (IF ~low /\ ~high THEN Expect(cur - 2, cur + 2, cur, n) ELSE <<>>)
               \o (IF high THEN Expect(last - 6, last - 1, cur, n) ELSE Dots)
               \o Expect(last, last, cur, n)

C3_Witness ==
    /\ navpc = "done" /\ num_pages = 20 /\ current_page = 10
    /\ Len(Entries(strip)) = 7
    /\ Entries(strip)[4].k = "bold" /\ Entries(strip)[4].page = 10

\* C4: in the small mode (numPages in 1..9) the strip has exactly numPages
\* entries, one per page in ascending order, the entry of currentPage bold
\* and every other one a link to format_page_filename(page, numPages).
C4_SmallStrip ==
    (navpc = "done" /\ num_pages \in 1..9) =>
      LET e == Entries(strip)
      IN  /\ Len(e) = num_pages
          /\ Shown(strip) = e
          /\ \A i \in 1..Len(e) :
               /\ e[i].page = i - 1
               /\ e[i].k = (IF i - 1 = current_page THEN "bold" ELSE "link")
               /\ e[i].k = "link" =>
                    e[i].href = (IF i = 1 THEN "index.md"
                                 ELSE "index-" \o Pad2(num_pages - (i - 1)) \o "-"
                                      \o SubSeq(shake_128_hex2(Pad2(num_pages - (i - 1))), 1, 2)
                                      \o ".md")
          /\ Cardinality({i \in 1..Len(e) : e[i].k = "bold"}) = 1

C4_Witness ==
    /\ navpc = "done" /\ num_pages = 9 /\ current_page = 3
    /\ Len(Entries(strip)) = 9 /\ Entries(strip)[4].k = "bold"

\* C10: for every numPages >= 1 and currentPage the entries of the strip are
\* in strictly ascending page order (so no page appears twice), every page
\* lies in 0..numPages-1, and currentPage appears exactly once, as the only
\* bold entry.
C10_AscendingStrip ==
    (navpc = "done") =>
      LET e == Entries(strip)
      IN  /\ \A i \in 1..Len(e) : e[i].page \in 0..(num_pages - 1)
          /\ \A i \in 1..(Len(e) - 1) : e[i].page < e[i + 1].page
          /\ Cardinality({i \in 1..Len(e) : e[i].page = current_page}) = 1
          /\ \A i \in 1..Len(e) : (e[i].k = "bold") <=> (e[i].page = current_page)

C10_Witness ==
    /\ navpc = "done" /\ num_pages = 10 /\ current_page = 5
    /\ Len(Entries(strip)) = 8
    /\ Entries(strip)[2].page = 3

----------------------------------------------------------------------------
(* write_pages over one category, in a run of main() and in the next run   *)

\* main: themes_custom = list(filter(is_released, get_lines(...))) reversed
Items == Reverse(lines)

Total == Len(Items)

NumPages == Ceil(Total, page_size)

NoPagination == [prev_href |-> "", links |-> <<>>, next_href |-> ""]

\* the document write_pages writes for one page: the "Page X of Y - N items
\* available" line, the batch handed to the grid generator, the pagination
Document(pg) ==
    [page |-> pg,
     of |-> NumPages,
     total |-> Total,
     batch |-> Slice(Items, pg * page_size, pg * page_size + page_size),
     nav |-> IF NumPages > 1 THEN generate_pagination(pg, NumPages)
             ELSE NoPagination]

PageInit ==
    /\ lines \in {[i \in 1..t |-> i] : t \in 0..MaxTotal}
    /\ page_size \in (1..MaxPageSize) \cup {PageSize}
    /\ page = 0
    /\ files = <<>>
    /\ prev = <<>>
    /\ run = "earlier"
    /\ ppc = "loop"
    /\ NavIdle /\ RecIdle /\ MainIdle

\* one iteration of the loop of write_pages
WritePage ==
    /\ ppc = "loop"
    /\ page < NumPages
    /\ files' = (format_page_filename(page, NumPages) :> Document(page)) @@ files
    /\ page' = page + 1
    /\ UNCHANGED <<lines, page_size, prev, run, ppc, navvars, recvars, mainvars>>

\* the loop of write_pages ends
EndPages ==
    /\ ppc = "loop"
    /\ page >= NumPages
    /\ ppc' = "done"
    /\ UNCHANGED <<lines, page_size, page, files, prev, run, navvars, recvars, mainvars>>

\* the next run: entries have been appended to the ordering list, main()
\* removes PAGES_DIR and write_pages starts over
NextRun ==
    /\ ppc = "done"
    /\ run = "earlier"
    /\ \E d \in 0..MaxGrow :
         lines' = lines \o [i \in 1..d |-> Len(lines) + i]
    /\ prev' = files
    /\ files' = <<>>
    /\ page' = 0
    /\ run' = "later"
    /\ ppc' = "loop"
    /\ UNCHANGED <<page_size, navvars, recvars, mainvars>>

PageNext == WritePage \/ EndPages \/ NextRun

SpecPages == PageInit /\ [][PageNext]_vars

----------------------------------------------------------------------------
(* Claims about the paginator *)

\* the documents of a directory, by page index
Docs(dir) == {dir[f] : f \in DOMAIN dir}
DocOfPage(dir, pg) == CHOOSE d \in Docs(dir) : d.page = pg

RECURSIVE ConcatBatches(_, _, _)
\* the batches of the pages pg..n-1 of a directory, one after the other
ConcatBatches(dir, pg, n) ==
    IF pg >= n THEN <<>>
    ELSE DocOfPage(dir, pg).batch \o ConcatBatches(dir, pg + 1, n)

\* C1: write_pages produces exactly ceil(total/pageSize) pages; page p holds
\* the contiguous slice [p*pageSize, p*pageSize+pageSize) of the input in
\* its order; the slices are non-empty, of size <= pageSize, pairwise
\* disjoint, and concatenated in page order they equal the input.
C1_PagesCoverInput ==
    (ppc = "done") =>
      LET n == Cardinality(DOMAIN files)
          pgs == {d.page : d \in Docs(files)}
      IN  /\ n * page_size >= Total
          /\ (n - 1) * page_size < Total \/ (n = 0 /\ Total = 0)
          /\ pgs = 0..(n - 1)
          /\ Cardinality(Docs(files)) = n
          /\ \A d \in Docs(files) :
               /\ Len(d.batch) \in 1..page_size
               /\ \A i \in 1..Len(d.batch) :
                    d.batch[i] = Items[d.page * page_size + i]
               /\ d.page < n - 1 => Len(d.batch) = page_size
          /\ \A d, e \in Docs(files) :
               d.page /= e.page => Elems(d.batch) \cap Elems(e.batch) = {}
          /\ ConcatBatches(files, 0, n) = Items

C1_Witness ==
    /\ ppc = "done" /\ Total = 7 /\ page_size = 3
    /\ Cardinality(DOMAIN files) = 3
    /\ Len(DocOfPage(files, 2).batch) = 1

DigitVal(c) ==
    CASE c = "0" -> 0 [] c = "1" -> 1 [] c = "2" -> 2 [] c = "3" -> 3
      [] c = "4" -> 4 [] c = "5" -> 5 [] c = "6" -> 6 [] c = "7" -> 7
      [] c = "8" -> 8 [] c = "9" -> 9 [] OTHER -> -100

\* the parts of a prefixed file name index-PP-DD.md
NamePrefix(f) == SubSeq(f, 7, 8)
NameDigest(f) == SubSeq(f, 10, 11)
PrefixValue(f) ==
    10 * DigitVal(SubSeq(f, 7, 7)) + DigitVal(SubSeq(f, 8, 8))
\* C2: page 0 is written as index.md whatever numPages is; page p >= 1 is
\* written as index-<prefix>-<digest>.md with <prefix> = numPages - p on two
\* digits and <digest> a function of <prefix> alone; two runs with the same
\* page count give every page the same name.
C2_FileNames ==
    /\ \A f \in DOMAIN files :
         IF files[f].page = 0 THEN f = "index.md"
         ELSE /\ Len(f) = 14
              /\ SubSeq(f, 1, 6) = "index-"
              /\ PrefixValue(f) = files[f].of - files[f].page
              /\ SubSeq(f, 9, 9) = "-"
              /\ Len(NameDigest(f)) = 2
              /\ SubSeq(f, 12, 14) = ".md"
    /\ \A f \in DOMAIN files, g \in DOMAIN prev :
         (f /= "index.md" /\ g /= "index.md" /\ NamePrefix(f) = NamePrefix(g))
           => NameDigest(f) = NameDigest(g)
    /\ \A f \in DOMAIN files, g \in DOMAIN prev :
         (files[f].of = prev[g].of /\ files[f].page = prev[g].page) => f = g

C2_Witness ==
    /\ run = "later" /\ ppc = "done"
    /\ Cardinality(DOMAIN files) = 3 /\ Cardinality(DOMAIN prev) = 3
    /\ "index-02-6b.md" \in DOMAIN files
    /\ files["index-02-6b.md"].page = 1

\* the targets of the link entries of a document's strip
LinkTargets(d) ==
    {Entries(d.nav.links)[i].href :
        i \in {j \in 1..Len(Entries(d.nav.links)) :
                  Entries(d.nav.links)[j].k = "link"}}

ThirteenByTwelve == ppc = "done" /\ Total = 13 /\ page_size = PageSize

\* C8 as stated: 13 entries with pageSize = 12 give 2 pages, page 0
\* (index.md) holding 1 item and page 1 holding 12 items.
C8_AsStated ==
    ThirteenByTwelve =>
      /\ Cardinality(DOMAIN files) = 2
      /\ Len(files["index.md"].batch) = 1
      /\ Len(DocOfPage(files, 1).batch) = 12

\* C8 amended: 13 entries with pageSize = 12 give 2 pages; page 0, written
\* as index.md, holds the first 12 items of the list and page 1 holds the
\* remaining 1 item; the pagination of each page links to the other page's
\* file name (arrow and strip entry).
C8_TwelveThenOne ==
    ThirteenByTwelve =>
      LET other == CHOOSE f \in DOMAIN files : f /= "index.md"
      IN  /\ Cardinality(DOMAIN files) = 2
          /\ "index.md" \in DOMAIN files
          /\ files["index.md"].page = 0
          /\ files[other].page = 1
          /\ files["index.md"].batch = SubSeq(Items, 1, 12)
          /\ files[other].batch = <<Items[13]>>
          /\ files["index.md"].nav.next_href = other
          /\ files["index.md"].nav.prev_href = ""
          /\ LinkTargets(files["index.md"]) = {other}
          /\ files[other].nav.prev_href = "index.md"
          /\ files[other].nav.next_href = ""
          /\ LinkTargets(files[other]) = {"index.md"}

C8_Witness ==
    /\ ThirteenByTwelve
    /\ Cardinality(DOMAIN files) = 2
    /\ Len(files["index.md"].batch) = 12

\* the earlier run's prefixed file names
Prefixed(dir) == {f \in DOMAIN dir : f /= "index.md"}

Grown ==
    /\ run = "later" /\ ppc = "done"
    /\ Cardinality(DOMAIN files) > Cardinality(DOMAIN prev)

\* C9 as stated: when numPages grows from n to n' > n, every page of the
\* earlier run with a prefixed file name reappears under the same file name
\* and holds the same items.
C9_AsStated ==
    Grown =>
      \A f \in Prefixed(prev) :
        f \in DOMAIN files /\ files[f].batch = prev[f].batch

\* C9 amended: when entries are appended to the ordering list so that
\* numPages grows from n to n' > n, every prefixed file name of the earlier
\* run exists in the later run too; the page under it holds the same items
\* exactly when the number of entries added is a multiple of pageSize.
C9_NamesKeptItemsShift ==
    Grown =>
      \A f \in Prefixed(prev) :
        /\ f \in DOMAIN files
        /\ (files[f].batch = prev[f].batch)
             <=> ((files[f].total - prev[f].total) % page_size = 0)

C9_Witness ==
    /\ Grown
    /\ page_size = 3
    /\ \E f \in Prefixed(prev) :
         /\ f \in DOMAIN files
         /\ files[f].batch /= prev[f].batch
         /\ files[f].total = prev[f].total + 4

----------------------------------------------------------------------------
(* The recency tracker *)

recents_maybe_append_All(rs, timestamp, theme) ==
    IF Len(rs) < MAX_RECENTS \/ \A i \in 1..Len(rs) : timestamp > rs[i].ts
    THEN Append(rs, [ts |-> timestamp, theme |-> theme])
    ELSE rs

\* if len(recents) < MAX_RECENTS or any(timestamp > item["ts"] ...): append
recents_maybe_append(rs, timestamp, theme) ==
    IF Len(rs) < MAX_RECENTS \/ \E i \in 1..Len(rs) : timestamp > rs[i].ts
    THEN Append(rs, [ts |-> timestamp, theme |-> theme])
    ELSE rs

\* one step of a stable descending sort: x goes after every item whose
\* timestamp is not smaller than its own
InsertDesc(sorted, x) ==
    LET before == SelectSeq(sorted, LAMBDA y : y.ts >= x.ts)
        after == SelectSeq(sorted, LAMBDA y : y.ts < x.ts)
    IN  before \o <<x>> \o after

RECURSIVE SortDesc(_)
\* items.sort(key=lambda item: item["ts"], reverse=True)
SortDesc(items) ==
    IF Len(items) = 0 THEN <<>>
    ELSE InsertDesc(SortDesc(SubSeq(items, 1, Len(items) - 1)), items[Len(items)])

\* the themes generate_recents_grid renders: items[:MAX_RECENTS] after the sort
RecentsShown(items) ==
    LET top == Slice(SortDesc(items), 0, MAX_RECENTS)
    IN  [i \in 1..Len(top) |-> top[i].theme]

\* the theme a timestamp of the recency specification belongs to
ThemeAt(timestamp) == "theme-" \o Dec(timestamp)

RecInit ==
    /\ recents = <<>>
    /\ offered = {}
    /\ grid = <<>>
    /\ rpc = "collect"
    /\ NavIdle /\ PageIdle /\ MainIdle

\* generate_item offers one more record, its timestamp unlike the others
Offer ==
    /\ rpc = "collect"
    /\ \E timestamp \in (1..MaxTs) \ offered :
         /\ recents' = recents_maybe_append(recents, timestamp, ThemeAt(timestamp))
         /\ offered' = offered \cup {timestamp}
    /\ UNCHANGED <<grid, rpc, navvars, pagevars, mainvars>>

\* generate_recents_grid: sort the list in place, render its head
ReadRecents ==
    /\ rpc = "collect"
    /\ recents' = SortDesc(recents)
    /\ grid' = RecentsShown(recents)
    /\ rpc' = "read"
    /\ UNCHANGED <<offered, navvars, pagevars, mainvars>>

RecNext == Offer \/ ReadRecents

SpecRecents == RecInit /\ [][RecNext]_vars

\* C5: once MAX_RECENTS + k records (k >= 0) with pairwise distinct
\* timestamps have been offered, in any order, the read yields exactly the
\* MAX_RECENTS records with the greatest timestamps, greatest first.
C5_TopRecents ==
    (rpc = "read" /\ Cardinality(offered) >= MAX_RECENTS) =>
      /\ Len(grid) = MAX_RECENTS
      /\ \A i \in 1..Len(grid) :
           \E t \in offered :
             /\ Cardinality({u \in offered : u > t}) = i - 1
             /\ grid[i] = ThemeAt(t)

C5_Witness ==
    /\ rpc = "read"
    /\ Cardinality(offered) = MAX_RECENTS + 2
    /\ Len(recents) > MAX_RECENTS
    /\ Len(recents) < Cardinality(offered)
    /\ Len(grid) = MAX_RECENTS

----------------------------------------------------------------------------
(* A run of main() *)

\* The theme directories of the repository, as validate_theme, config.json,
\* the icons directories and the git history describe them.  ts = 0 stands
\* for git_last_changed returning None.
Catalog ==
    "Aqua by ann" :> [is_valid |-> TRUE, has_subdirs |-> FALSE, config_ok |-> TRUE,
                      icon_subdirs |-> <<"themes/Aqua by ann">>,
                      ts |-> 3, commit_count |-> 1, released |-> TRUE]
 @@ "Bolt"        :> [is_valid |-> TRUE, has_subdirs |-> FALSE, config_ok |-> TRUE,
                      icon_subdirs |-> <<>>,
                      ts |-> 2, commit_count |-> 4, released |-> TRUE]
 @@ "Coal"        :> [is_valid |-> TRUE, has_subdirs |-> TRUE, config_ok |-> FALSE,
                      icon_subdirs |-> <<"themes/Coal/dark", "themes/Coal/light">>,
                      ts |-> 0, commit_count |-> 0, released |-> TRUE]
 @@ "Dusk"        :> [is_valid |-> TRUE, has_subdirs |-> FALSE, config_ok |-> FALSE,
                      icon_subdirs |-> <<>>,
                      ts |-> 4, commit_count |-> 1, released |-> TRUE]
 @@ "Echo"        :> [is_valid |-> FALSE, has_subdirs |-> FALSE, config_ok |-> FALSE,
                      icon_subdirs |-> <<>>,
                      ts |-> 0, commit_count |-> 0, released |-> TRUE]
 @@ "Fern"        :> [is_valid |-> TRUE, has_subdirs |-> FALSE, config_ok |-> TRUE,
                      icon_subdirs |-> <<>>,
                      ts |-> 5, commit_count |-> 2, released |-> FALSE]

Themes == DOMAIN Catalog

\* released_themes: the zip files of RELEASE_DIR
released_themes == {t \in Themes : Catalog[t].released}

\* get_ordered_icons(): the icon packs that belong to no theme
standalone_icon_packs == <<[theme |-> "", theme_subdir |-> "icons/mono"]>>

\* the documents an earlier run left under PAGES_DIR
OldPages == {<<"custom", "index.md">>, <<"custom", "index-01-79.md">>,
             <<"remixed", "index.md">>}

\* the ordering lists a curator can have written: no theme twice in a list
OrderingLists ==
    {l \in UNION {[1..n -> Themes] : n \in 0..MaxLines} :
        \A i, j \in 1..Len(l) : i /= j => l[i] /= l[j]}

\* list(filter(is_released, lines))
FilterReleased(ls) == SelectSeq(ls, LAMBDA t : t \in released_themes)

\* the globals a rendering pass changes, and whether an exception was raised
Globals ==
    [packs |-> themes_icon_packs, added |-> recently_added,
     updated |-> recently_updated, offers |-> offers, err |-> FALSE]

\* generate_item, up to the state it changes: st is the state before
generate_item(theme, collect_data, st) ==
    LET c == Catalog[theme]
        withPacks ==
          [st EXCEPT !.packs = @ \o [i \in 1..Len(c.icon_subdirs) |->
                                       [theme |-> theme,
                                        theme_subdir |-> c.icon_subdirs[i]]]]
    IN  IF ~c.is_valid THEN st
        ELSE IF ~c.has_subdirs /\ ~c.config_ok THEN [st EXCEPT !.err = TRUE]
        ELSE IF ~collect_data THEN st
        ELSE IF c.ts = 0 THEN withPacks
        ELSE IF c.commit_count <= 1
        THEN [withPacks EXCEPT
                !.added = recents_maybe_append(@, c.ts, theme),
                !.offers = [@ EXCEPT ![theme] = @ + 1]]
        ELSE [withPacks EXCEPT
                !.updated = recents_maybe_append(@, c.ts, theme),
                !.offers = [@ EXCEPT ![theme] = @ + 1]]

RECURSIVE generate_table_grid(_, _)
\* generate_table_grid: generate_item(theme, collect_data=True) for each
\* theme of the batch, until one raises
generate_table_grid(batch, st) ==
    IF Len(batch) = 0 \/ st.err THEN st
    ELSE generate_table_grid(Tail(batch), generate_item(Head(batch), TRUE, st))

MainInit ==
    /\ pc = "start"
    /\ release_exists \in BOOLEAN
    /\ custom_lines \in OrderingLists
    /\ remixed_lines \in OrderingLists
    /\ themes_custom = <<>>
    /\ themes_remixed = <<>>
    /\ mpage = 0
    /\ pages_exists \in BOOLEAN
    /\ pages = IF pages_exists THEN OldPages ELSE {}
    /\ readme = "old"
    /\ themes_icon_packs = <<>>
    /\ recently_added = <<>>
    /\ recently_updated = <<>>
    /\ offers = [t \in Themes |-> 0]
    /\ NavIdle /\ PageIdle /\ RecIdle

\* if not os.path.exists(RELEASE_DIR): return
CheckRelease ==
    /\ pc = "start"
    /\ pc' = IF release_exists THEN "rmtree" ELSE "exit"
    /\ UNCHANGED <<release_exists, custom_lines, remixed_lines, themes_custom,
                   themes_remixed, mpage, pages, pages_exists, readme,
                   themes_icon_packs, recently_added, recently_updated, offers,
                   navvars, pagevars, recvars>>

\* shutil.rmtree(PAGES_DIR): raises when the directory does not exist
RemovePages ==
    /\ pc = "rmtree"
    /\ IF pages_exists
       THEN /\ pages' = {}
            /\ pages_exists' = FALSE
            /\ pc' = "lists"
       ELSE /\ pc' = "error"
            /\ UNCHANGED <<pages, pages_exists>>
    /\ UNCHANGED <<release_exists, custom_lines, remixed_lines, themes_custom,
                   themes_remixed, mpage, readme,
                   themes_icon_packs, recently_added, recently_updated, offers,
                   navvars, pagevars, recvars>>

\* the released themes of each list, newest first; os.makedirs(PAGES_DIR)
ReadLists ==
    /\ pc = "lists"
    /\ themes_custom' = Reverse(FilterReleased(custom_lines))
    /\ themes_remixed' = Reverse(FilterReleased(remixed_lines))
    /\ pages_exists' = TRUE
    /\ mpage' = 0
    /\ pc' = "custom"
    /\ UNCHANGED <<release_exists, custom_lines, remixed_lines, pages, readme,
                   themes_icon_packs, recently_added, recently_updated, offers,
                   navvars, pagevars, recvars>>

\* the list write_pages is working on
GroupItems ==
    CASE pc = "custom" -> themes_custom
      [] pc = "remixed" -> themes_remixed
      [] pc = "icons_themes" -> themes_icon_packs
      [] pc = "icons_standalone" -> standalone_icon_packs
      [] OTHER -> <<>>

GroupPages == Ceil(Len(GroupItems), PageSize)

NextGroup ==
    CASE pc = "custom" -> "remixed"
      [] pc = "remixed" -> "icons_themes"
      [] pc = "icons_themes" -> "icons_standalone"
      [] pc = "icons_standalone" -> "index"

\* one iteration of write_pages(..., generate_table_grid): the batch is
\* rendered item by item, then the page is written, unless an item raised
WriteThemePage ==
    /\ pc \in {"custom", "remixed"}
    /\ mpage < GroupPages
    /\ LET batch == Slice(GroupItems, mpage * PageSize, mpage * PageSize + PageSize)
           st == generate_table_grid(batch, Globals)
       IN  /\ themes_icon_packs' = st.packs
           /\ recently_added' = st.added
           /\ recently_updated' = st.updated
           /\ offers' = st.offers
           /\ IF st.err
              THEN /\ pc' = "error"
                   /\ UNCHANGED <<pages, mpage>>
              ELSE /\ pages' = pages \cup
                         {<<pc, format_page_filename(mpage, GroupPages)>>}
                   /\ mpage' = mpage + 1
                   /\ pc' = pc
    /\ UNCHANGED <<release_exists, custom_lines, remixed_lines, themes_custom,
                   themes_remixed, pages_exists, readme,
                   navvars, pagevars, recvars>>

\* one iteration of write_pages(..., generate_icon_pack_table)
WriteIconPage ==
    /\ pc \in {"icons_themes", "icons_standalone"}
    /\ mpage < GroupPages
    /\ pages' = pages \cup {<<pc, format_page_filename(mpage, GroupPages)>>}
    /\ mpage' = mpage + 1
    /\ UNCHANGED <<pc, release_exists, custom_lines, remixed_lines, themes_custom,
                   themes_remixed, pages_exists, readme,
                   themes_icon_packs, recently_added, recently_updated, offers,
                   navvars, pagevars, recvars>>

\* the loop of a write_pages ends; main goes on to the next call
EndGroup ==
    /\ pc \in {"custom", "remixed", "icons_themes", "icons_standalone"}
    /\ mpage >= GroupPages
    /\ pc' = NextGroup
    /\ mpage' = 0
    /\ UNCHANGED <<release_exists, custom_lines, remixed_lines, themes_custom,
                   themes_remixed, pages, pages_exists, readme,
                   themes_icon_packs, recently_added, recently_updated, offers,
                   navvars, pagevars, recvars>>

\* write_file(README_PATH, generate_index(...)): both recency lists are
\* sorted in place by generate_recents_grid
WriteIndex ==
    /\ pc = "index"
    /\ recently_added' = SortDesc(recently_added)
    /\ recently_updated' = SortDesc(recently_updated)
    /\ readme' = "new"
    /\ pc' = "done"
    /\ UNCHANGED <<release_exists, custom_lines, remixed_lines, themes_custom,
                   themes_remixed, mpage, pages, pages_exists,
                   themes_icon_packs, offers, navvars, pagevars, recvars>>

MainNext ==
    \/ CheckRelease
    \/ RemovePages
    \/ ReadLists
    \/ WriteThemePage
    \/ WriteIconPage
    \/ EndGroup
    \/ WriteIndex

SpecMain == MainInit /\ [][MainNext]_vars

\* C6: within one run an entry rendered into more than one category is
\* counted once: it is offered to the recency collections at most once and
\* its icon packs are in the icon-pack collection at most once.
C6_CountedOnce ==
    /\ \A t \in Themes : offers[t] <= 1
    /\ \A i, j \in 1..Len(themes_icon_packs) :
         i /= j => themes_icon_packs[i] /= themes_icon_packs[j]

\* C7: if a fatal error occurs during a run, no page document of the output
\* directory has been deleted or written before the error.
C7_NoPartialOutput ==
    (pc = "error") =>
      IF pages_exists THEN pages = OldPages ELSE pages = {}

============================================================================
